---- MODULE Spec2Model ----
(***************************************************************************)
(* Model of streamlit_app.py: a didactic transaction demo.  A transaction  *)
(* record is serialised to canonical JSON bytes, identified by a double    *)
(* SHA-256 and "signed" with HMAC-SHA256 under a session key; a later      *)
(* verification decodes the stored bytes, substitutes the memo, re-encodes *)
(* and compares the recomputed signature with the stored one.              *)
(*                                                                         *)
(* Representation.  A Python str is a sequence of code points, a bytes     *)
(* object a sequence of numbers in 0..255.  A JSON value is a record with  *)
(* a tag t in {"int","str","list","obj"}; a dict keeps its items as a      *)
(* sequence of <<key, value>> pairs in insertion order, as Python does.    *)
(* None is the empty sequence and a present value x is <<x>>.              *)
(* SHA-256 and HMAC are ideal (collision-free) symbolic functions.         *)
(***************************************************************************)
EXTENDS Integers, Sequences, FiniteSets, TLC

\* ------------------------------------------------------------------ bounds
MaxLen == 1
NumKeys == 2
MaxAmount == 1
MaxIndex == 1
MaxTick == 1

\* -------------------------------------------------------- Python's None
None == <<>>
Some(x) == <<x>>
Get(o) == o[1]

\* ------------------------------------------------------- JSON value kinds
JInt(n) == [t |-> "int", n |-> n, s |-> <<>>, items |-> <<>>]
JStr(s) == [t |-> "str", n |-> 0, s |-> s, items |-> <<>>]
JList(xs) == [t |-> "list", n |-> 0, s |-> <<>>, items |-> xs]
JObj(kvs) == [t |-> "obj", n |-> 0, s |-> <<>>, items |-> kvs]

\* ------------------------------------------------- field names (as str)
K_version == <<118, 101, 114, 115, 105, 111, 110>>
K_timestamp == <<116, 105, 109, 101, 115, 116, 97, 109, 112>>
K_vin == <<118, 105, 110>>
K_vout == <<118, 111, 117, 116>>
K_memo == <<109, 101, 109, 111>>
K_prev_txid == <<112, 114, 101, 118, 95, 116, 120, 105, 100>>
K_index == <<105, 110, 100, 101, 120>>
K_address == <<97, 100, 100, 114, 101, 115, 115>>
K_amount == <<97, 109, 111, 117, 110, 116>>

\* ---------------------------------------------------------- json.dumps
\* ''.join(chunks) and sep.join(chunks), by halving
RECURSIVE JoinRange(_, _, _, _)
JoinRange(ss, sep, lo, hi) ==
  IF lo > hi THEN <<>>
  ELSE IF lo = hi THEN ss[lo]
  ELSE LET mid == (lo + hi) \div 2
       IN JoinRange(ss, sep, lo, mid) \o sep \o JoinRange(ss, sep, mid + 1, hi)

Join(ss, sep) == JoinRange(ss, sep, 1, Len(ss))

Flatten(ss) == Join(ss, <<>>)

HexDigit(d) == IF d < 10 THEN 48 + d ELSE 87 + d

\* json.encoder.ESCAPE_DCT as used by py_encode_basestring (ensure_ascii=False)
EscapeChar(c) ==
  CASE c = 34 -> <<92, 34>>
    [] c = 92 -> <<92, 92>>
    [] c = 10 -> <<92, 110>>
    [] c = 13 -> <<92, 114>>
    [] c = 9 -> <<92, 116>>
    [] c = 8 -> <<92, 98>>
    [] c = 12 -> <<92, 102>>
    [] OTHER -> IF c < 32
                THEN <<92, 117, 48, 48, HexDigit(c \div 16), HexDigit(c % 16)>>
                ELSE <<c>>

EncodeString(s) ==
  <<34>> \o Flatten([i \in 1..Len(s) |-> EscapeChar(s[i])]) \o <<34>>

RECURSIVE Digits(_)
Digits(n) == IF n < 10 THEN <<48 + n>> ELSE Digits(n \div 10) \o <<48 + (n % 10)>>

IntRepr(n) == IF n < 0 THEN <<45>> \o Digits(0 - n) ELSE Digits(n)

\* str comparison: lexicographic by code point
RECURSIVE StrLess(_, _)
StrLess(a, b) ==
  IF b = <<>> THEN FALSE
  ELSE IF a = <<>> THEN TRUE
  ELSE IF a[1] # b[1] THEN a[1] < b[1]
  ELSE StrLess(Tail(a), Tail(b))

\* a variant of SortItems that keeps the insertion order (sort_keys=False)
SortItems_Unsorted(kvs) == kvs

\* sorted(dct.items()): stable insertion sort on the key
RECURSIVE InsertItem(_, _)
InsertItem(kv, sorted) ==
  IF sorted = <<>> THEN <<kv>>
  ELSE IF StrLess(kv[1], sorted[1][1]) THEN <<kv>> \o sorted
  ELSE <<sorted[1]>> \o InsertItem(kv, Tail(sorted))

RECURSIVE SortItemsFrom(_, _)
SortItemsFrom(kvs, i) ==
  IF i = 0 THEN <<>> ELSE InsertItem(kvs[i], SortItemsFrom(kvs, i - 1))

SortItems(kvs) == SortItemsFrom(kvs, Len(kvs))

\* json.dumps(obj, ensure_ascii=False, separators=(",", ":"), sort_keys=True)
RECURSIVE dumps(_)
dumps(v) ==
  CASE v.t = "int" -> IntRepr(v.n)
    [] v.t = "str" -> EncodeString(v.s)
    [] v.t = "list" ->
         <<91>> \o Join([i \in 1..Len(v.items) |-> dumps(v.items[i])], <<44>>) \o <<93>>
    [] v.t = "obj" ->
         LET kvs == SortItems(v.items)
         IN <<123>>
            \o Join([i \in 1..Len(kvs) |->
                       EncodeString(kvs[i][1]) \o <<58>> \o dumps(kvs[i][2])], <<44>>)
            \o <<125>>

\* ------------------------------------------------------- str.encode("utf-8")
\* A surrogate code point (U+D800..U+DFFF) has no UTF-8 encoding: the marker
\* -1 in the bytes stands for the UnicodeEncodeError that encode raises.
Utf8Char(c) ==
  IF c < 128 THEN <<c>>
  ELSE IF c < 2048 THEN <<192 + (c \div 64), 128 + (c % 64)>>
  ELSE IF c >= 55296 /\ c < 57344 THEN <<-1>>
  ELSE IF c < 65536
       THEN <<224 + (c \div 4096), 128 + ((c \div 64) % 64), 128 + (c % 64)>>
  ELSE <<240 + (c \div 262144), 128 + ((c \div 4096) % 64),
         128 + ((c \div 64) % 64), 128 + (c % 64)>>

encode_utf8(s) == Flatten([i \in 1..Len(s) |-> Utf8Char(s[i])])

\* whether encode raised instead of returning b
Raised(b) == SelectSeq(b, LAMBDA x : x < 0) # <<>>

\* ------------------------------------------------------ bytes.decode("utf-8")
\* json.loads(bytes) decodes the document as UTF-8 before scanning it.
\* An undecodable position yields the marker -1 (UnicodeDecodeError).
IsCont(b, i) == i <= Len(b) /\ b[i] >= 128 /\ b[i] < 192

\* the number of continuation bytes the lead byte c announces, or -1
Follows(c) ==
  IF c < 128 THEN 0
  ELSE IF c >= 194 /\ c < 224 THEN 1
  ELSE IF c >= 224 /\ c < 240 THEN 2
  ELSE IF c >= 240 /\ c < 245 THEN 3
  ELSE -1

\* the code point whose encoding starts at b[i]; -1 where it is malformed
CodePointAt(b, i) ==
  LET c == b[i]
      n == Follows(c)
  IN IF n < 0 \/ \E k \in 1..n : ~IsCont(b, i + k) THEN -1
     ELSE IF IsCont(b, i + n + 1) THEN -1
     ELSE IF n = 0 THEN c
     ELSE IF n = 1 THEN (c - 192) * 64 + (b[i + 1] - 128)
     ELSE IF n = 2 THEN (c - 224) * 4096 + (b[i + 1] - 128) * 64 + (b[i + 2] - 128)
     ELSE (c - 240) * 262144 + (b[i + 1] - 128) * 4096
          + (b[i + 2] - 128) * 64 + (b[i + 3] - 128)

NotSkipped(x) == x # -2

\* one code point per lead byte; a continuation byte at the start is malformed
decode_utf8(b) ==
  SelectSeq([i \in 1..Len(b) |->
               IF IsCont(b, i) THEN (IF i = 1 THEN -1 ELSE -2) ELSE CodePointAt(b, i)],
            NotSkipped)

\* ---------------------------------------------------------- json.loads
\* Scanner results: [ok, v, pos]; ok = FALSE is a JSONDecodeError.
\* The scanner covers objects, arrays, strings and integers, which is every
\* value json.dumps emits for a Transaction; any other token is rejected.
Fail == [ok |-> FALSE, v |-> JInt(0), pos |-> 0]
Ok(v, pos) == [ok |-> TRUE, v |-> v, pos |-> pos]

IsWs(c) == c \in {32, 9, 10, 13}

RECURSIVE SkipWs(_, _)
SkipWs(s, i) == IF i <= Len(s) /\ IsWs(s[i]) THEN SkipWs(s, i + 1) ELSE i

IsDigit(c) == c >= 48 /\ c <= 57

HexVal(c) ==
  IF IsDigit(c) THEN c - 48
  ELSE IF c >= 97 /\ c <= 102 THEN c - 87
  ELSE IF c >= 65 /\ c <= 70 THEN c - 55
  ELSE -1

\* the four hex digits of a \uXXXX escape starting at s[i], or -1
Hex4(s, i) ==
  IF i + 3 > Len(s) THEN -1
  ELSE IF \E k \in 0..3 : HexVal(s[i + k]) < 0 THEN -1
  ELSE HexVal(s[i]) * 4096 + HexVal(s[i + 1]) * 256 + HexVal(s[i + 2]) * 16 + HexVal(s[i + 3])

\* a variant of BACKSLASH that decodes the escape \\ as a solidus
Backslash_SolidusForBackslash(e) ==
  CASE e = 34 -> 34
    [] e = 92 -> 47
    [] e = 47 -> 47
    [] e = 98 -> 8
    [] e = 102 -> 12
    [] e = 110 -> 10
    [] e = 114 -> 13
    [] e = 116 -> 9
    [] OTHER -> -1

\* json.decoder.BACKSLASH
Backslash(e) ==
  CASE e = 34 -> 34
    [] e = 92 -> 92
    [] e = 47 -> 47
    [] e = 98 -> 8
    [] e = 102 -> 12
    [] e = 110 -> 10
    [] e = 114 -> 13
    [] e = 116 -> 9
    [] OTHER -> -1

\* json.decoder.scanstring (strict): s[i] is the first character after the
\* opening quote; acc is the text decoded so far.
RECURSIVE scanstring(_, _, _)
scanstring(s, i, acc) ==
  IF i > Len(s) THEN Fail
  ELSE LET c == s[i] IN
    IF c = 34 THEN [ok |-> TRUE, v |-> JStr(acc), pos |-> i + 1]
    ELSE IF c = 92 THEN
      IF i + 1 > Len(s) THEN Fail
      ELSE IF s[i + 1] = 117 THEN
        LET uni == Hex4(s, i + 2) IN
          IF uni < 0 THEN Fail
          ELSE IF uni >= 55296 /\ uni <= 56319
                  /\ i + 7 <= Len(s) /\ s[i + 6] = 92 /\ s[i + 7] = 117
                  /\ Hex4(s, i + 8) >= 56320 /\ Hex4(s, i + 8) <= 57343
               THEN scanstring(s, i + 12,
                      Append(acc, 65536 + (uni - 55296) * 1024 + (Hex4(s, i + 8) - 56320)))
          ELSE scanstring(s, i + 6, Append(acc, uni))
      ELSE IF Backslash(s[i + 1]) < 0 THEN Fail
      ELSE scanstring(s, i + 2, Append(acc, Backslash(s[i + 1])))
    ELSE IF c < 32 THEN Fail
    ELSE scanstring(s, i + 1, Append(acc, c))

\* NUMBER_RE restricted to integers: -?(0|[1-9][0-9]*)
RECURSIVE ScanDigits(_, _, _)
ScanDigits(s, i, n) ==
  IF i <= Len(s) /\ IsDigit(s[i]) THEN ScanDigits(s, i + 1, n * 10 + (s[i] - 48))
  ELSE [n |-> n, pos |-> i]

ScanNumber(s, i) ==
  LET neg == s[i] = 45
      j == IF neg THEN i + 1 ELSE i
  IN IF j > Len(s) \/ ~IsDigit(s[j]) THEN Fail
     ELSE LET r == IF s[j] = 48 THEN [n |-> 0, pos |-> j + 1] ELSE ScanDigits(s, j, 0)
          IN IF r.pos <= Len(s) /\ s[r.pos] \in {46, 101, 69} THEN Fail
             ELSE Ok(JInt(IF neg THEN 0 - r.n ELSE r.n), r.pos)

\* dict(pairs): a repeated key keeps its first position and takes the last value
RECURSIVE DictSet(_, _, _)
DictSet(kvs, k, v) ==
  IF kvs = <<>> THEN <<<<k, v>>>>
  ELSE IF kvs[1][1] = k THEN <<<<k, v>>>> \o Tail(kvs)
  ELSE <<kvs[1]>> \o DictSet(Tail(kvs), k, v)

RECURSIVE scan_once(_, _)
RECURSIVE JSONObject(_, _, _)
RECURSIVE JSONArray(_, _, _)

\* py_scanner._scan_once
scan_once(s, i) ==
  IF i > Len(s) THEN Fail
  ELSE LET c == s[i] IN
    IF c = 34 THEN scanstring(s, i + 1, <<>>)
    ELSE IF c = 123 THEN
      LET j == SkipWs(s, i + 1) IN
        IF j <= Len(s) /\ s[j] = 125 THEN Ok(JObj(<<>>), j + 1)
        ELSE JSONObject(s, j, <<>>)
    ELSE IF c = 91 THEN
      LET j == SkipWs(s, i + 1) IN
        IF j <= Len(s) /\ s[j] = 93 THEN Ok(JList(<<>>), j + 1)
        ELSE JSONArray(s, j, <<>>)
    ELSE IF c = 45 \/ IsDigit(c) THEN ScanNumber(s, i)
    ELSE Fail

\* json.decoder.JSONObject: s[i] is expected to open the next key
JSONObject(s, i, acc) ==
  IF i > Len(s) \/ s[i] # 34 THEN Fail
  ELSE LET k == scanstring(s, i + 1, <<>>) IN
    IF ~k.ok THEN Fail
    ELSE LET c == SkipWs(s, k.pos) IN
      IF c > Len(s) \/ s[c] # 58 THEN Fail
      ELSE LET val == scan_once(s, SkipWs(s, c + 1)) IN
        IF ~val.ok THEN Fail
        ELSE LET e == SkipWs(s, val.pos)
                 items == DictSet(acc, k.v.s, val.v)
             IN IF e > Len(s) THEN Fail
                ELSE IF s[e] = 125 THEN Ok(JObj(items), e + 1)
                ELSE IF s[e] = 44 THEN JSONObject(s, SkipWs(s, e + 1), items)
                ELSE Fail

\* json.decoder.JSONArray: s[i] is expected to open the next element
JSONArray(s, i, acc) ==
  LET val == scan_once(s, i) IN
    IF ~val.ok THEN Fail
    ELSE LET e == SkipWs(s, val.pos) IN
      IF e > Len(s) THEN Fail
      ELSE IF s[e] = 93 THEN Ok(JList(Append(acc, val.v)), e + 1)
      ELSE IF s[e] = 44 THEN JSONArray(s, SkipWs(s, e + 1), Append(acc, val.v))
      ELSE Fail

\* json.loads(b) for a bytes argument: decode, scan one value, reject extra data
loads(b) ==
  LET s == decode_utf8(b) IN
    IF \E i \in 1..Len(s) : s[i] < 0 THEN Fail
    ELSE LET r == scan_once(s, SkipWs(s, 1)) IN
      IF ~r.ok THEN Fail
      ELSE IF SkipWs(s, r.pos) # Len(s) + 1 THEN Fail
      ELSE r

\* --------------------------------------------------- the transaction record
TxInput(prev_txid, index) == [prev_txid |-> prev_txid, index |-> index]

TxOutput(address, amount) == [address |-> address, amount |-> amount]

Transaction(version, timestamp, vin, vout, memo) ==
  [version |-> version, timestamp |-> timestamp, vin |-> vin, vout |-> vout, memo |-> memo]

\* dataclasses.asdict: one item per field, in declaration order
asdict_in(i) == JObj(<< <<K_prev_txid, JStr(i.prev_txid)>>, <<K_index, JInt(i.index)>> >>)

\* a variant of asdict_out that leaves the amount out
asdict_out_NoAmount(o) == JObj(<< <<K_address, JStr(o.address)>> >>)

asdict_out(o) == JObj(<< <<K_address, JStr(o.address)>>, <<K_amount, JInt(o.amount)>> >>)

\* a variant of TxObj that emits the outputs last to first
TxObj_ReversedOutputs(tx) ==
  JObj(<< <<K_version, JInt(tx.version)>>,
          <<K_timestamp, JInt(tx.timestamp)>>,
          <<K_vin, JList([i \in 1..Len(tx.vin) |-> asdict_in(tx.vin[i])])>>,
          <<K_vout, JList([i \in 1..Len(tx.vout) |->
                             asdict_out(tx.vout[Len(tx.vout) + 1 - i])])>>,
          <<K_memo, JStr(tx.memo)>> >>)

\* the dict literal of Transaction.serialize, items in source order
TxObj(tx) ==
  JObj(<< <<K_version, JInt(tx.version)>>,
          <<K_timestamp, JInt(tx.timestamp)>>,
          <<K_vin, JList([i \in 1..Len(tx.vin) |-> asdict_in(tx.vin[i])])>>,
          <<K_vout, JList([i \in 1..Len(tx.vout) |-> asdict_out(tx.vout[i])])>>,
          <<K_memo, JStr(tx.memo)>> >>)

serialize(tx) == encode_utf8(dumps(TxObj(tx)))

\* ------------------------------------------------------ hashing and HMAC
\* hashlib.sha256(b).digest(): an ideal hash, the digest names its preimage
sha256(b) == [sha256 |-> b]

sha256d(b) == [sha256 |-> sha256(b)]

\* bytes.hex(): the lowercase hexadecimal str of a digest
hex(d) == [hex |-> d]

txid(tx) == hex(sha256d(serialize(tx)))

\* a variant of hmac_sha256 whose tag does not depend on the key
hmac_sha256_Unkeyed(key, msg) == [key |-> [i \in 1..64 |-> 0], msg |-> msg]

\* HMAC pads a key shorter than the SHA-256 block (64 bytes) with zero bytes;
\* the tag is an ideal function of the padded key and the message.
hmac_sha256(key, msg) ==
  [key |-> key \o [i \in 1..(64 - Len(key)) |-> 0], msg |-> msg]

\* ------------------------------------------------------------ input domains
\* characters a text field may hold: '"', '\', 'a' and U+00E9
Chars == {34, 92, 97, 233}

RECURSIVE Texts(_)
Texts(n) ==
  IF n = 0 THEN {<<>>}
  ELSE LET shorter == Texts(n - 1)
       IN shorter \cup {Append(s, c) : s \in {x \in shorter : Len(x) = n - 1}, c \in Chars}

Memos == Texts(MaxLen)

\* "a1" (the head of the widget's default) and a text of three characters,
\* a quotation mark, a backslash and U+00E9, which the encoder escapes or
\* encodes in two bytes and the decoder has to restore
PrevTxids == {<<97, 49>>, <<34, 92, 233>>}
\* an empty address field, and "E"
Addresses == {<<>>, <<69>>}
Amounts == 0..MaxAmount
Indexes == 0..MaxIndex
\* int(time.time()): seconds since the epoch
Epoch == 1700000000
Times == Epoch..(Epoch + MaxTick)

\* secrets.token_bytes(32): the keys differ in their first byte
KeyVal(k) == [i \in 1..32 |-> IF i = 1 THEN k ELSE 0]
Keys == {KeyVal(k) : k \in 0..(NumKeys - 1)}

\* The widget values one build & sign reads.  The form starts from
\* DefaultForm and the user has edited the fields of at most one group:
\* the input reference, the outputs, the memo, or (the clock) now.
DefaultForm ==
  [prev_txid |-> <<97, 49>>, index |-> 0, addr_1 |-> <<69>>, amt_1 |-> MaxAmount,
   addr_2 |-> <<69>>, amt_2 |-> MaxAmount, memo |-> <<97>>, now |-> Epoch]

Edited(f) ==
  (IF f.prev_txid # DefaultForm.prev_txid \/ f.index # DefaultForm.index THEN 1 ELSE 0)
  + (IF \/ f.addr_1 # DefaultForm.addr_1 \/ f.amt_1 # DefaultForm.amt_1
        \/ f.addr_2 # DefaultForm.addr_2 \/ f.amt_2 # DefaultForm.amt_2 THEN 1 ELSE 0)
  + (IF f.memo # DefaultForm.memo THEN 1 ELSE 0)
  + (IF f.now # DefaultForm.now THEN 1 ELSE 0)

Forms ==
  {f \in [prev_txid : PrevTxids, index : Indexes, addr_1 : Addresses, amt_1 : Amounts,
          addr_2 : Addresses, amt_2 : Amounts, memo : Memos, now : Times] :
     Edited(f) <= 1}

\* a variant of BuildTx that includes the second output whenever its address
\* is not empty, whatever its amount
BuildTx_SecondIfAddress(f) ==
  Transaction(1, f.now,
              <<TxInput(f.prev_txid, f.index)>>,
              <<TxOutput(f.addr_1, f.amt_1)>>
                \o (IF f.addr_2 # <<>>
                    THEN <<TxOutput(f.addr_2, f.amt_2)>> ELSE <<>>),
              f.memo)

\* lines 96-102: the record built from the widget values
BuildTx(f) ==
  Transaction(1, f.now,
              <<TxInput(f.prev_txid, f.index)>>,
              <<TxOutput(f.addr_1, f.amt_1)>>
                \o (IF f.addr_2 # <<>> /\ f.amt_2 > 0
                    THEN <<TxOutput(f.addr_2, f.amt_2)>> ELSE <<>>),
              f.memo)

\* line 103, tx.serialize(), tabulated over the forms; merging with the empty
\* function leaves the table as it is and has it computed once, not per lookup
SerOf == [f \in Forms |-> serialize(BuildTx(f))] @@ <<>>

SignedBytes == {SerOf[f] : f \in Forms}

\* a variant of ReplaceMemo in which the assignment of line 125 is missing
ReplaceMemo_KeepsMemo(b, alter_memo) ==
  LET original == loads(b) IN
    IF ~original.ok \/ original.v.t # "obj" THEN [ok |-> FALSE, ser2 |-> <<>>]
    ELSE [ok |-> TRUE, ser2 |-> encode_utf8(dumps(original.v))]

\* lines 124-126: decode the stored bytes, replace the memo, encode again.
\* ok = FALSE stands for an exception raised by line 124 or 125; whether the
\* encode of line 126 raised is read off ser2 (Raised).
ReplaceMemo(b, alter_memo) ==
  LET original == loads(b) IN
    IF ~original.ok \/ original.v.t # "obj" THEN [ok |-> FALSE, ser2 |-> <<>>]
    ELSE [ok |-> TRUE,
          ser2 |-> encode_utf8(dumps(JObj(DictSet(original.v.items, K_memo,
                                                  JStr(alter_memo)))))]

\* A Python str may hold a lone surrogate, which UTF-8 cannot encode: the
\* one value of a text field on which serialize (line 53) and the re-encoding
\* of line 126 raise.  The forms below hold U+D800 in one text field.
Unencodable == {<<55296>>}

UnencodableForms ==
  {[DefaultForm EXCEPT !.memo = t] : t \in Unencodable}
    \cup {[DefaultForm EXCEPT !.prev_txid = t] : t \in Unencodable}
    \cup {[DefaultForm EXCEPT !.addr_1 = t] : t \in Unencodable}
    \cup {[DefaultForm EXCEPT !.addr_2 = t, !.amt_2 = a] : t \in Unencodable, a \in Amounts}

\* whether line 103 raises on the form; a text in a discarded second output
\* is never encoded
RaisesOf == [f \in UnencodableForms |-> Raised(serialize(BuildTx(f)))] @@ <<>>

\* ReplaceMemo tabulated over the bytes a build can store and the memos
Reencoded == [b \in SignedBytes, m \in Memos |-> ReplaceMemo(b, m)] @@ <<>>

\* ReplaceMemo tabulated over the memos that cannot be encoded
ReencodedRaises == [b \in SignedBytes, m \in Unencodable |-> ReplaceMemo(b, m)] @@ <<>>

\* a variant of Matches that compares the signed message and not the key
Matches_IgnoresKey(key, ser2, signature) ==
  hex(hmac_sha256(key, ser2)).hex.msg = signature.hex.msg

\* line 128: the comparison of the recomputed signature with the stored one
Matches(key, ser2, signature) == hex(hmac_sha256(key, ser2)) = signature

\* -------------------------------------------------- inputs of the pure functions
\* texts beyond the form's: a line feed, U+0001, U+20AC and U+1F600
LabTexts == Memos \cup {<<10>>, <<1>>, <<8364>>, <<128512>>}
Versions == {1, 2}
LabTxs == {BuildTx(f) : f \in Forms}

\* the records that differ from tx in the value of exactly one field
Variants(tx) ==
  {<<"memo", [tx EXCEPT !.memo = m]>> : m \in LabTexts \ {tx.memo}}
  \cup {<<"timestamp", [tx EXCEPT !.timestamp = t]>> : t \in Times \ {tx.timestamp}}
  \cup {<<"version", [tx EXCEPT !.version = v]>> : v \in Versions \ {tx.version}}
  \cup {<<"index", [tx EXCEPT !.vin[1].index = i]>> : i \in Indexes \ {tx.vin[1].index}}
  \cup {<<"prev_txid", [tx EXCEPT !.vin[1].prev_txid = t]>> :
          t \in PrevTxids \ {tx.vin[1].prev_txid}}
  \cup UNION {{<<"amount", [tx EXCEPT !.vout[j].amount = a]>> :
                 a \in Amounts \ {tx.vout[j].amount}} : j \in 1..Len(tx.vout)}
  \cup UNION {{<<"address", [tx EXCEPT !.vout[j].address = a]>> :
                 a \in Addresses \ {tx.vout[j].address}} : j \in 1..Len(tx.vout)}

\* a dict with the same items inserted in another order
Reverse(xs) == [i \in 1..Len(xs) |-> xs[Len(xs) + 1 - i]]

ReorderInner(list, swap) ==
  JList([i \in 1..Len(list.items) |->
           IF swap THEN JObj(Reverse(list.items[i].items)) ELSE list.items[i]])

\* obj is the dict of serialize; order is a permutation of 1..5
Reordered(obj, order, swap_in, swap_out) ==
  LET inner == [i \in 1..5 |->
                  IF obj.items[i][1] = K_vin
                  THEN <<K_vin, ReorderInner(obj.items[i][2], swap_in)>>
                  ELSE IF obj.items[i][1] = K_vout
                  THEN <<K_vout, ReorderInner(obj.items[i][2], swap_out)>>
                  ELSE obj.items[i]]
  IN JObj([i \in 1..5 |-> inner[order[i]]])

Orders == {p \in [1..5 -> 1..5] : \A i, j \in 1..5 : i # j => p[i] # p[j]}

\* ------------------------------------------------------------------ state
VARIABLES
  priv_key,            \* st.session_state.priv_key
  orig_signature,      \* st.session_state.orig_signature
  orig_serialization,  \* st.session_state.orig_serialization
  clicked,             \* the button that returned True in the last script run
  form,                \* the widget values read by the build & sign that stored last
  shown,               \* what the last script run rendered
  lab                  \* one application of the pure functions and its results

vars == <<priv_key, orig_signature, orig_serialization, clicked, form, shown, lab>>

Blank == [msg |-> "none", alter_memo |-> None, ser |-> None, txid |-> None, sig |-> None]

Info == [Blank EXCEPT !.msg = "info"]

\* the functions applied to tx under the first key, nothing compared yet
LabInput(tx) ==
  [op |-> "input", what |-> "", tx1 |-> tx, tx2 |-> tx,
   key1 |-> KeyVal(0), key2 |-> KeyVal(0),
   ser1 |-> serialize(tx), ser2 |-> serialize(tx),
   id1 |-> txid(tx), id2 |-> txid(tx),
   raw |-> hmac_sha256(KeyVal(0), serialize(tx)), ok |-> TRUE, order |-> <<>>]

LabIdle == LabInput(BuildTx(DefaultForm))

\* lines 59-64
SessionInit ==
  /\ priv_key = None
  /\ orig_signature = None
  /\ orig_serialization = None
  /\ clicked = "none"
  /\ form = None
  /\ shown = Info

\* the session after construction and the first run's rendering
Init == SessionInit /\ lab = LabIdle

\* lines 136-137: the last branch of a run that did not perform a verification
NotVerified(sig, rendered) == IF sig = None THEN Info ELSE rendered

\* a variant of GenerateKey in which line 71 is missing
GenerateKey_KeepsSerialization ==
  /\ \E k \in Keys :
       /\ priv_key' = Some(k)
       /\ orig_signature' = None
       /\ clicked' = "generate"
       /\ shown' = NotVerified(None, Blank)
  /\ UNCHANGED <<orig_serialization, form, lab>>

\* a variant of GenerateKey in which lines 70-71 are missing
GenerateKey_KeepsSigned ==
  /\ \E k \in Keys :
       /\ priv_key' = Some(k)
       /\ clicked' = "generate"
       /\ shown' = NotVerified(orig_signature, Blank)
  /\ UNCHANGED <<orig_signature, orig_serialization, form, lab>>

\* lines 68-71: the generate-key button
GenerateKey ==
  /\ \E k \in Keys :
       /\ priv_key' = Some(k)
       /\ orig_signature' = None
       /\ orig_serialization' = None
       /\ clicked' = "generate"
       /\ shown' = NotVerified(None, Blank)
  /\ UNCHANGED <<form, lab>>

\* a variant of BuildAndSign that stores the bytes only when none are stored
BuildAndSign_KeepsFirst ==
  /\ priv_key # None
  /\ \E f \in Forms :
       LET ser == SerOf[f]
           signature == hex(hmac_sha256(Get(priv_key), ser))
       IN /\ orig_signature' = Some(signature)
          /\ orig_serialization' =
               (IF orig_serialization = None THEN Some(ser) ELSE orig_serialization)
          /\ form' = Some(f)
          /\ shown' = NotVerified(Some(signature),
                        [msg |-> "success", alter_memo |-> None, ser |-> Some(ser),
                         txid |-> Some(hex(sha256d(ser))), sig |-> Some(signature)])
  /\ clicked' = "sign"
  /\ UNCHANGED <<priv_key, lab>>

\* a variant of BuildAndSign in which line 108 is missing
BuildAndSign_SignatureOnly ==
  /\ priv_key # None
  /\ \E f \in Forms :
       LET ser == SerOf[f]
           signature == hex(hmac_sha256(Get(priv_key), ser))
       IN /\ orig_signature' = Some(signature)
          /\ form' = Some(f)
          /\ shown' = NotVerified(Some(signature),
                        [msg |-> "success", alter_memo |-> None, ser |-> Some(ser),
                         txid |-> Some(hex(sha256d(ser))), sig |-> Some(signature)])
  /\ clicked' = "sign"
  /\ UNCHANGED <<priv_key, orig_serialization, lab>>

\* lines 95-113: the build & sign button (disabled while there is no key)
BuildAndSign ==
  /\ priv_key # None
  /\ \E f \in Forms :
       LET ser == SerOf[f]
           signature == hex(hmac_sha256(Get(priv_key), ser))
       IN /\ orig_signature' = Some(signature)
          /\ orig_serialization' = Some(ser)
          /\ form' = Some(f)
          /\ shown' = NotVerified(Some(signature),
                        [msg |-> "success", alter_memo |-> None, ser |-> Some(ser),
                         txid |-> Some(hex(sha256d(ser))), sig |-> Some(signature)])
  /\ clicked' = "sign"
  /\ UNCHANGED <<priv_key, lab>>

\* a variant of Verify that stores the re-encoded bytes as the original
Verify_StoresReencoded ==
  /\ orig_signature # None
  /\ orig_serialization # None
  /\ clicked' = "verify"
  /\ UNCHANGED <<priv_key, orig_signature, form, lab>>
  /\ \E alter_memo \in Memos :
       LET r == ReplaceMemo(Get(orig_serialization), alter_memo)
           ok == Matches(Get(priv_key), r.ser2, Get(orig_signature))
       IN /\ orig_serialization' = Some(r.ser2)
          /\ shown' = [msg |-> IF ok THEN "ok" ELSE "failed",
                       alter_memo |-> Some(alter_memo), ser |-> Some(r.ser2),
                       txid |-> Some(hex(sha256d(r.ser2))), sig |-> None]

\* a variant of Verify whose button is never disabled
Verify_AlwaysEnabled ==
  /\ clicked' = "verify"
  /\ UNCHANGED <<priv_key, orig_signature, orig_serialization, form, lab>>
  /\ \E alter_memo \in Memos :
       IF orig_serialization # None
       THEN LET r == Reencoded[Get(orig_serialization), alter_memo]
                ok == Matches(Get(priv_key), r.ser2, Get(orig_signature))
            IN shown' = [msg |-> IF ok THEN "ok" ELSE "failed",
                         alter_memo |-> Some(alter_memo), ser |-> Some(r.ser2),
                         txid |-> Some(hex(sha256d(r.ser2))), sig |-> None]
       ELSE shown' = NotVerified(orig_signature, Blank)

\* a variant of Verify whose button is never disabled and whose handler
\* compares against the absent signature when nothing is stored
Verify_ReportsWithoutRecord ==
  /\ clicked' = "verify"
  /\ UNCHANGED <<priv_key, orig_signature, orig_serialization, form, lab>>
  /\ \E alter_memo \in Memos :
       IF orig_serialization # None
       THEN LET r == Reencoded[Get(orig_serialization), alter_memo]
                ok == Matches(Get(priv_key), r.ser2, Get(orig_signature))
            IN shown' = [msg |-> IF ok THEN "ok" ELSE "failed",
                         alter_memo |-> Some(alter_memo), ser |-> Some(r.ser2),
                         txid |-> Some(hex(sha256d(r.ser2))), sig |-> None]
       ELSE shown' = [Blank EXCEPT !.msg = "failed", !.alter_memo = Some(alter_memo)]

\* lines 123-135: what a verification renders, given the outcome r of lines
\* 124-126
Verified(r, alter_memo, key, signature) ==
  IF ~r.ok \/ Raised(r.ser2)
  THEN [Blank EXCEPT !.msg = "error"]
  ELSE [msg |-> IF Matches(key, r.ser2, signature) THEN "ok" ELSE "failed",
        alter_memo |-> Some(alter_memo), ser |-> Some(r.ser2),
        txid |-> Some(hex(sha256d(r.ser2))), sig |-> None]

\* lines 118-135: the verify button (disabled while there is no signature)
Verify ==
  /\ orig_signature # None
  /\ clicked' = "verify"
  /\ UNCHANGED <<priv_key, orig_signature, orig_serialization, form, lab>>
  /\ \E alter_memo \in Memos :
       IF orig_serialization # None
       THEN shown' = Verified(Reencoded[Get(orig_serialization), alter_memo], alter_memo,
                              Get(priv_key), Get(orig_signature))
       ELSE shown' = NotVerified(orig_signature, Blank)

\* a script run in which no button was clicked (a widget was edited)
Rerun ==
  /\ clicked' = "none"
  /\ shown' = NotVerified(orig_signature, Blank)
  /\ UNCHANGED <<priv_key, orig_signature, orig_serialization, form, lab>>

Next == GenerateKey \/ BuildAndSign \/ Verify \/ Rerun

Spec == Init /\ [][Next]_vars

\* ------------------------------------------- runs that end in an exception
\* a variant of BuildAndSignRaises that discards the stored signature before
\* it serializes the new record
BuildAndSignRaises_DropsSignature ==
  /\ priv_key # None
  /\ \E f \in UnencodableForms : RaisesOf[f]
  /\ orig_signature' = None
  /\ clicked' = "sign"
  /\ shown' = [Blank EXCEPT !.msg = "exception"]
  /\ UNCHANGED <<priv_key, orig_serialization, form, lab>>

\* lines 95-103: build & sign on a form whose record serialize cannot encode.
\* Line 103 raises before lines 107-108 assign; the exception is not caught,
\* the run ends there and renders the exception.
BuildAndSignRaises ==
  /\ priv_key # None
  /\ \E f \in UnencodableForms : RaisesOf[f]
  /\ clicked' = "sign"
  /\ shown' = [Blank EXCEPT !.msg = "exception"]
  /\ UNCHANGED <<priv_key, orig_signature, orig_serialization, form, lab>>

\* lines 118-135: verify with a substituted memo that line 126 cannot encode;
\* the except clause of lines 134-135 reports the error
VerifyRaises ==
  /\ orig_signature # None
  /\ clicked' = "verify"
  /\ UNCHANGED <<priv_key, orig_signature, orig_serialization, form, lab>>
  /\ \E alter_memo \in Unencodable :
       IF orig_serialization # None
       THEN shown' = Verified(ReencodedRaises[Get(orig_serialization), alter_memo], alter_memo,
                              Get(priv_key), Get(orig_signature))
       ELSE shown' = NotVerified(orig_signature, Blank)

\* the session when the text fields may hold any str
AnyTextNext == Next \/ BuildAndSignRaises \/ VerifyRaises

AnyTextSpec == Init /\ [][AnyTextNext]_vars

\* ------------------------------------------- the pure functions, applied
session == <<priv_key, orig_signature, orig_serialization, clicked, form, shown>>

LabInit == SessionInit /\ lab \in {LabInput(tx) : tx \in LabTxs}

\* serialize, txid, sign and verify on a record and on a one-field variant of it
LabMutate ==
  /\ lab.op = "input"
  /\ \E k \in Keys, v \in Variants(lab.tx1) :
       LET sera == serialize(lab.tx1)
           serb == serialize(v[2])
           sig == hmac_sha256(k, sera)
       IN lab' = [op |-> "mutated", what |-> v[1], tx1 |-> lab.tx1, tx2 |-> v[2],
                  key1 |-> k, key2 |-> k, ser1 |-> sera, ser2 |-> serb,
                  id1 |-> txid(lab.tx1), id2 |-> txid(v[2]),
                  raw |-> sig, ok |-> Matches(k, serb, hex(sig)), order |-> <<>>]
  /\ UNCHANGED session

\* sign a message under key1, verify a message under key2 against that signature
LabVerify ==
  /\ lab.op = "input"
  /\ \E k1 \in Keys, k2 \in Keys, m \in {lab.tx1.memo, Append(lab.tx1.memo, 97)} :
       LET tx2 == [lab.tx1 EXCEPT !.memo = m]
           sera == serialize(lab.tx1)
           serb == serialize(tx2)
           sig == hmac_sha256(k1, sera)
       IN lab' = [op |-> "verified", what |-> "", tx1 |-> lab.tx1, tx2 |-> tx2,
                  key1 |-> k1, key2 |-> k2, ser1 |-> sera, ser2 |-> serb,
                  id1 |-> txid(lab.tx1), id2 |-> txid(tx2),
                  raw |-> sig, ok |-> Matches(k2, serb, hex(sig)), order |-> <<>>]
  /\ UNCHANGED session

\* serialize's dict assembled in another key order, then encoded as line 53 does
LabReorder ==
  /\ lab.op = "input"
  /\ \E order \in Orders, swap_in \in BOOLEAN, swap_out \in BOOLEAN :
       lab' = [lab EXCEPT
                 !.op = "reordered",
                 !.ser2 = encode_utf8(dumps(Reordered(TxObj(lab.tx1), order,
                                                      swap_in, swap_out))),
                 !.order = order \o <<IF swap_in THEN 1 ELSE 0, IF swap_out THEN 1 ELSE 0>>]
  /\ UNCHANGED session

\* serialize and txid on a record and on the record with its outputs reversed
LabReverse ==
  /\ lab.op = "input"
  /\ LET tx2 == [lab.tx1 EXCEPT !.vout = Reverse(@)]
     IN lab' = [lab EXCEPT !.op = "reversed", !.tx2 = tx2,
                           !.ser2 = serialize(tx2), !.id2 = txid(tx2)]
  /\ UNCHANGED session

LabNext == LabMutate \/ LabVerify \/ LabReorder \/ LabReverse

LabSpec == LabInit /\ [][LabNext]_vars

\* ------------------------------------------------------------ properties
\* the session states of the workflow
NoKey == priv_key = None /\ orig_signature = None /\ orig_serialization = None

KeyReady ==
  /\ priv_key # None
  /\ Len(Get(priv_key)) = 32
  /\ orig_signature = None
  /\ orig_serialization = None

\* C1: a verification performed after a build & sign with memo m reports a
\* match when the substituted memo equals m and a mismatch when it differs.
C1_VerifyDetectsMemoChange ==
  clicked = "verify" =>
    shown.msg = (IF Get(shown.alter_memo) = Get(form).memo THEN "ok" ELSE "failed")

C1_Witness ==
  /\ clicked = "verify"
  /\ shown.msg = "failed"
  /\ Get(form).memo = <<34>>
  /\ Get(shown.alter_memo) = <<92>>

\* C2: from every session state the generate-key action leads to KeyReady
\* (a 32-byte key, signature and serialization absent), and from KeyReady no
\* step other than build & sign leaves KeyReady or is a verification.
C2_GenerateKeyResets ==
  [][/\ clicked' = "generate" => KeyReady'
     /\ (KeyReady /\ clicked' # "sign") => (KeyReady' /\ clicked' # "verify")]_vars

\* a key generated over a signed session: a build happened, nothing is stored
C2_Witness == clicked = "generate" /\ form # None /\ KeyReady

\* C3: a stored signature is the signature of the stored serialization under
\* the current session key.
C3_SignatureUnderCurrentKey ==
  orig_signature # None =>
    /\ priv_key # None
    /\ orig_serialization # None
    /\ Get(orig_signature) = hex(hmac_sha256(Get(priv_key), Get(orig_serialization)))

C3_Witness ==
  /\ orig_signature # None
  /\ priv_key = Some(KeyVal(1))
  /\ clicked = "verify"

\* C4: two transactions that differ in the value of exactly one field have
\* different canonical bytes and different identifiers, and the changed bytes
\* fail verification against the signature of the unchanged ones.
C4_OneFieldChangeDetected ==
  lab.op = "mutated" =>
    /\ lab.ser2 # lab.ser1
    /\ lab.id2 # lab.id1
    /\ ~lab.ok

C4_Witness == lab.op = "mutated" /\ lab.what = "amount" /\ Len(lab.tx1.vout) = 2

\* C5: verification of a message under a key against an expected signature
\* succeeds exactly when the expected signature is sign(key, message).
C5_VerifyIffSignature ==
  lab.op = "verified" => (lab.ok <=> lab.raw = hmac_sha256(lab.key2, lab.ser2))

C5_Witness ==
  /\ lab.op = "verified"
  /\ lab.ok
  /\ lab.key2 = KeyVal(1)
  /\ lab.tx2.memo = <<34>>

\* C6: a signature made under one key fails verification of the same message
\* under a different key.
C6_OtherKeyFails ==
  (lab.op = "verified" /\ lab.key1 # lab.key2 /\ lab.ser1 = lab.ser2) => ~lab.ok

C6_Witness ==
  /\ lab.op = "verified"
  /\ lab.key1 # lab.key2
  /\ lab.ser1 = lab.ser2
  /\ ~lab.ok

\* C7: the encoding of a record does not depend on the order in which the
\* keys of its top-level map and of its input and output maps were inserted.
C7_EncodingIgnoresKeyOrder == lab.op = "reordered" => lab.ser2 = lab.ser1

C7_Witness ==
  /\ lab.op = "reordered"
  /\ lab.order = <<5, 4, 3, 2, 1, 1, 1>>
  /\ Len(lab.tx1.vout) = 2

\* C8: a verification leaves the key, the stored signature and the stored
\* serialization as they were, so the verify button stays enabled.
C8_VerifyKeepsSession ==
  [][clicked' = "verify" =>
       /\ priv_key' = priv_key
       /\ orig_signature' = orig_signature
       /\ orig_serialization' = orig_serialization
       /\ orig_signature' # None]_vars

C8_Witness ==
  /\ clicked = "verify"
  /\ shown.msg = "ok"
  /\ orig_serialization = Some(SerOf[Get(form)])

\* C9: build & sign stores the bytes of the record built from the form and
\* their signature under the current key, whatever was stored before, and
\* keeps the key; a verification is judged against the last build & sign.
C9_BuildAndSignOverwrites ==
  [][/\ clicked' = "sign" =>
          /\ priv_key' = priv_key
          /\ priv_key # None
          /\ form' # None
          /\ orig_serialization' = Some(SerOf[Get(form')])
          /\ orig_signature' = Some(hex(hmac_sha256(Get(priv_key), SerOf[Get(form')])))
     /\ clicked' = "verify" =>
          ((shown'.msg = "ok") <=>
             (hmac_sha256(Get(priv_key), Get(shown'.ser))
                = hmac_sha256(Get(priv_key), SerOf[Get(form)])))]_vars

C9_Witness ==
  /\ clicked = "sign"
  /\ priv_key = Some(KeyVal(1))
  /\ Get(form).addr_2 = <<>>
  /\ orig_serialization = Some(SerOf[Get(form)])

\* C10: the session starts in NoKey with nothing stored, and while there is
\* no key nothing is stored and neither build & sign nor verify is possible.
C10_NothingWithoutKey ==
  /\ NoKey
  /\ [](priv_key = None =>
          /\ NoKey
          /\ clicked \notin {"sign", "verify"}
          /\ shown.msg \in {"none", "info"}
          /\ ~ENABLED BuildAndSign
          /\ ~ENABLED Verify)

C10_Witness == NoKey /\ clicked = "none" /\ shown = Info /\ form = None

\* C11: while no signed record is stored (NoKey or KeyReady) the verify button
\* is disabled and a run is never a verification: it reports neither a match
\* nor a mismatch, and unless it is a generate-key or build & sign click it
\* shows the notice of lines 136-137 and leaves key, signature and
\* serialization as they were.
C11_VerifyRejectedWithoutRecord ==
  /\ [](orig_signature = None => ~ENABLED Verify)
  /\ [][(NoKey \/ KeyReady) =>
          /\ clicked' # "verify"
          /\ shown'.msg \notin {"ok", "failed"}
          /\ clicked' \notin {"generate", "sign"} =>
               /\ shown' = Info
               /\ UNCHANGED <<priv_key, orig_signature, orig_serialization>>]_vars

\* a run without a click in KeyReady, after an earlier record was discarded
C11_Witness == KeyReady /\ clicked = "none" /\ shown = Info /\ form # None

\* C12: a build & sign or a verification that ends in an error leaves the
\* key, the stored signature and the stored serialization as they were; after
\* it the signature and the serialization are still both absent or both
\* present, and a stored signature is still that of the stored serialization
\* under the key.
C12_FailureKeepsSession ==
  [][shown'.msg \in {"exception", "error"} =>
       /\ UNCHANGED <<priv_key, orig_signature, orig_serialization>>
       /\ (orig_signature' = None) <=> (orig_serialization' = None)
       /\ orig_signature' # None =>
            Get(orig_signature')
              = hex(hmac_sha256(Get(priv_key'), Get(orig_serialization')))]_vars

\* a build & sign that raised over a session holding a signed record
C12_Witness ==
  /\ clicked = "sign"
  /\ shown.msg = "exception"
  /\ orig_signature # None
  /\ orig_serialization = Some(SerOf[Get(form)])

\* C13: the bytes serialize returns are a JSON document whose top-level object
\* holds exactly the keys memo, timestamp, version, vin and vout in that
\* (lexicographic) order, whose vin elements hold exactly index and prev_txid
\* and whose vout elements hold exactly address and amount, in that order,
\* with the elements of vin and vout in the order of the record; a record with
\* its outputs in another order has other bytes.
C13_EncodedDocument ==
  lab.op = "reversed" =>
    LET tx == lab.tx1
        doc == loads(lab.ser1)
        vin == [i \in 1..Len(tx.vin) |->
                  JObj(<< <<K_index, JInt(tx.vin[i].index)>>,
                          <<K_prev_txid, JStr(tx.vin[i].prev_txid)>> >>)]
        vout == [i \in 1..Len(tx.vout) |->
                   JObj(<< <<K_address, JStr(tx.vout[i].address)>>,
                           <<K_amount, JInt(tx.vout[i].amount)>> >>)]
    IN /\ doc.ok
       /\ doc.v = JObj(<< <<K_memo, JStr(tx.memo)>>,
                          <<K_timestamp, JInt(tx.timestamp)>>,
                          <<K_version, JInt(tx.version)>>,
                          <<K_vin, JList(vin)>>,
                          <<K_vout, JList(vout)>> >>)
       /\ StrLess(K_memo, K_timestamp) /\ StrLess(K_timestamp, K_version)
       /\ StrLess(K_version, K_vin) /\ StrLess(K_vin, K_vout)
       /\ StrLess(K_index, K_prev_txid) /\ StrLess(K_address, K_amount)
       /\ lab.tx2.vout # tx.vout => lab.ser2 # lab.ser1

\* two different outputs, serialized in both orders
C13_Witness ==
  /\ lab.op = "reversed"
  /\ Len(lab.tx1.vout) = 2
  /\ lab.tx1.vout[1] # lab.tx1.vout[2]
  /\ lab.tx2.vout = <<lab.tx1.vout[2], lab.tx1.vout[1]>>

\* C14: the bytes a verification re-encodes are the bytes serialize returns
\* for the record of the last build & sign with only its memo replaced by the
\* substituted memo, and the identifier it shows is that record's; when the
\* substituted memo is the signed memo they are the stored serialization and
\* the identifier of the signed record.
C14_ReencodingIsEncoding ==
  clicked = "verify" =>
    LET signed == BuildTx(Get(form))
        altered == [signed EXCEPT !.memo = Get(shown.alter_memo)]
    IN /\ shown.ser = Some(serialize(altered))
       /\ shown.txid = Some(txid(altered))
       /\ Get(shown.alter_memo) = signed.memo =>
            /\ shown.ser = orig_serialization
            /\ shown.txid = Some(txid(signed))

\* a record whose input reference needs escapes, verified with its own memo
C14_Witness ==
  /\ clicked = "verify"
  /\ Get(form).prev_txid = <<34, 92, 233>>
  /\ Get(shown.alter_memo) = Get(form).memo
  /\ shown.ser = orig_serialization

\* C15: the bytes a build & sign stores encode version 1, one input made of
\* the form's previous txid and index, a first output made of address #1 and
\* amount #1 whatever they are, and a second output made of address #2 and
\* amount #2 exactly when address #2 is not empty and amount #2 is positive;
\* forms that differ only in a second output that is left out store the same
\* bytes.
C15_BuiltRecord ==
  clicked = "sign" =>
    LET f == Get(form)
        doc == loads(Get(orig_serialization))
        field == [i \in 1..5 |-> doc.v.items[i][2]]
        out(a, n) == JObj(<< <<K_address, JStr(a)>>, <<K_amount, JInt(n)>> >>)
        second == f.addr_2 # <<>> /\ f.amt_2 > 0
    IN /\ doc.ok
       /\ [i \in 1..5 |-> doc.v.items[i][1]]
            = <<K_memo, K_timestamp, K_version, K_vin, K_vout>>
       /\ field[1] = JStr(f.memo)
       /\ field[2] = JInt(f.now)
       /\ field[3] = JInt(1)
       /\ field[4] = JList(<< JObj(<< <<K_index, JInt(f.index)>>,
                                      <<K_prev_txid, JStr(f.prev_txid)>> >>) >>)
       /\ field[5] = JList(IF second
                           THEN <<out(f.addr_1, f.amt_1), out(f.addr_2, f.amt_2)>>
                           ELSE <<out(f.addr_1, f.amt_1)>>)
       /\ \A g \in Forms :
            (/\ ~second
             /\ ~(g.addr_2 # <<>> /\ g.amt_2 > 0)
             /\ [g EXCEPT !.addr_2 = f.addr_2, !.amt_2 = f.amt_2] = f)
              => SerOf[g] = Get(orig_serialization)

\* an empty first address with amount 0 is kept, and a second address whose
\* amount is 0 is left out
C15_Witness ==
  /\ clicked = "sign"
  /\ Get(form).addr_1 = <<>>
  /\ Get(form).amt_1 = 0
  /\ Get(form).addr_2 # <<>>
  /\ Get(form).amt_2 = 0
  /\ Get(orig_serialization) = SerOf[[Get(form) EXCEPT !.addr_2 = <<>>]]

\* C16: in every reachable state the stored signature and the stored
\* serialization are both absent or both present, and present only with a
\* key; so the verify button is enabled (line 119) exactly when the handler's
\* guard on the serialization (line 121) holds.
C16_SignedPairTogether ==
  /\ (orig_signature = None) <=> (orig_serialization = None)
  /\ orig_signature # None => priv_key # None
  /\ (ENABLED Verify) <=> (orig_serialization # None)

\* a signature and a serialization stored by a build & sign, under a key
C16_Witness ==
  /\ clicked = "sign"
  /\ priv_key = Some(KeyVal(0))
  /\ orig_signature # None
  /\ orig_serialization # None
  /\ Get(form).now = Epoch + MaxTick

====
